---- MODULE Spec2Model ----
(***************************************************************************)
(* ServoController of src/kibo.py: a worker thread advancing per-channel   *)
(* linear trajectories on a fixed tick, and caller threads that install    *)
(* trajectories (move, center_all), read positions (get_angles) and stop   *)
(* the worker (stop).  Angles, durations and the tick are Python floats;   *)
(* they are modelled as binary floating-point numbers with a significand   *)
(* of Precision bits, rounded to nearest-even after every operation.       *)
(***************************************************************************)
EXTENDS Integers, Sequences, FiniteSets, TLC

(***************************************************************************)
(* Floating point.  A float is the integer x standing for x * 2^-FracBits; *)
(* representable values carry at most Precision significant bits.          *)
(***************************************************************************)
Precision == 8
FracBits == 13

RECURSIVE Pow2(_)
Pow2(n) == IF n <= 0 THEN 1 ELSE 2 * Pow2(n - 1)

RECURSIVE BitLen(_)
BitLen(n) == IF n <= 0 THEN 0 ELSE 1 + BitLen(n \div 2)

Abs(x) == IF x < 0 THEN -x ELSE x

Unit == Pow2(FracBits)

\* the spacing of the floats around a magnitude of f units
Quantum(f) == IF BitLen(f) <= Precision THEN 1 ELSE Pow2(BitLen(f) - Precision)

\* N/D rounded to the nearest integer, ties to the even one
NearestEven(N, D) ==
    IF 2 * (N % D) > D \/ (2 * (N % D) = D /\ (N \div D) % 2 = 1)
    THEN (N \div D) + 1
    ELSE N \div D

RoundAbs(N, d) == NearestEven(N, d * Quantum(N \div d)) * Quantum(N \div d)

\* The float nearest to n/d units (d > 0), ties to even: the rounding every
\* float operation of the source ends with.  (The set binds n's value once.)
FRound(n, d) ==
    CHOOSE m \in {IF v < 0 THEN -RoundAbs(-v, d) ELSE RoundAbs(v, d) : v \in {n}} : TRUE

\* float(k) for a Python int k, and the float nearest to the decimal n/d
Float(k) == FRound(k * Unit, 1)
Dec(n, d) == FRound(n * Unit, d)

FAdd(a, b) == FRound(a + b, 1)
FSub(a, b) == FRound(a - b, 1)
\* float / int (the int converts exactly) and float / float
FDivInt(a, k) == FRound(a, k)
FDiv(a, b) == IF b < 0 THEN FRound(-(a * Unit), -b) ELSE FRound(a * Unit, b)
\* int(x): truncation toward zero
Trunc(a) == IF a < 0 THEN -((-a) \div Unit) ELSE a \div Unit

Max(a, b) == IF a >= b THEN a ELSE b
Min(a, b) == IF a <= b THEN a ELSE b

(***************************************************************************)
(* Optional values: None is the empty tuple, a value v is <<v>>.           *)
(***************************************************************************)
None == <<>>
Some(v) == <<v>>
Val(o) == o[1]
\* Python truthiness of an optional float: None and 0.0 are falsy
Truthy(o) == o # None /\ Val(o) # 0
PyOr(o, dflt) == IF Truthy(o) THEN Val(o) ELSE dflt
\* dict.get(key, None)
Get(dict, key) == IF key \in DOMAIN dict THEN dict[key] ELSE None

(***************************************************************************)
(* Limits                                                                  *)
(***************************************************************************)
Limits(lo, hi, c) == [min_angle |-> Float(lo), max_angle |-> Float(hi), center |-> Float(c)]

clamp(lim, value) == Max(lim.min_angle, Min(lim.max_angle, value))

DEFAULT_LIMITS ==
    (0 :> Limits(30, 80, 55)) @@ (1 :> Limits(0, 180, 90)) @@
    (2 :> Limits(40, 140, 90)) @@ (3 :> Limits(0, 180, 60))

\* {**DEFAULT_LIMITS, **(limits or {})}
MergeLimits(override) ==
    [ch \in DOMAIN DEFAULT_LIMITS \cup DOMAIN override |->
        IF ch \in DOMAIN override THEN override[ch] ELSE DEFAULT_LIMITS[ch]]


(***************************************************************************)
(* Construction arguments and the inputs callers pass                      *)
(***************************************************************************)
\* active_channels, in iteration order
channels == <<0, 1>>
ChanSet == {channels[i] : i \in 1..Len(channels)}
tick_hz == 50
\* self.tick = 1.0 / tick_hz
tick == FDivInt(Float(1), tick_hz)

NoOverride == [ch \in {} |-> Limits(0, 0, 0)]
NoneReported == [ch \in ChanSet |-> None]
\* the constructions explored: no limits argument, and kit.servo[ch].angle
\* reporting nothing, or 100 degrees on channel 0 and 0 degrees on channel 1
Constructions ==
    { [limits |-> NoOverride, angle |-> NoneReported],
      [limits |-> NoOverride, angle |-> (0 :> Some(Float(100))) @@ (1 :> Some(Float(0)))] }

NoTargets == [ch \in {} |-> None]
\* the targets mappings callers pass: a channel mapped to None beside a named
\* one, and an unconfigured key (9) beside a named channel (the other absent)
TargetMaps ==
    { (0 :> None) @@ (1 :> Some(Float(200))),
      (9 :> Some(Float(20))) @@ (0 :> Some(Float(20))) }
Durations == {Float(0), Dec(6, 100)}

MaxMoves == 2
MaxStops == 2

(***************************************************************************)
(* State                                                                   *)
(***************************************************************************)
VARIABLES
    limits,      \* self.limits
    servo,       \* the driver: the angle last reported or written, per channel
    current,     \* self._current
    target,      \* self._target
    delta,       \* self._delta
    steps_left,  \* self._steps_left
    lock,        \* self._lock: "free" or the thread holding it
    stop_evt,    \* self._stop_evt
    wpc, wch,    \* the worker thread: position, loop index into channels
    apc, ach,    \* the application thread: position, loop index into channels
    targets, duration, steps, new_angle, cur,  \* arguments and locals of move
    ret,         \* how the application thread's last call ended ("none" during a call)
    snapshot,    \* the mapping get_angles returned, when it was the last call
    moves,       \* move and center_all calls made so far
    spc, stops,  \* the thread calling stop: position, returned calls so far
    \* History, read by the properties only:
    torn,        \* the tick in progress (or cut short) has changed the current of
                 \* a channel and not yet that of a later channel it is to change
    late_ticks,  \* ticks begun since stop_evt was set
    since,       \* per channel: the angle and duration of the last move naming it,
                 \* the ticks that duration asks for, the ticks run since
    late_call,   \* the call in progress was made after a call of stop had returned
    tick0,       \* inside a tick: current, steps_left and the driver as the tick
                 \* found them (None outside a tick)
    \* RobotFace of src/face.py:
    running,     \* self._running
    q,           \* self.q, the command queue
    fpc,         \* the render thread's position in _loop
    look, expression, blink_req,  \* (self._look_h, self._look_v), self._expression,
                 \* self._blink_req
    backlight,   \* _backlight.value
    displayed,   \* the image last pushed to the display
    fspc,        \* the thread calling RobotFace.stop: its position
    late_frames  \* history: images pushed since _running was set to False

ctl == <<limits, servo, current, target, delta, steps_left, lock, stop_evt>>
wvars == <<wpc, wch>>
avars == <<apc, ach, targets, duration, steps, new_angle, cur, ret, snapshot, moves>>
svars == <<spc, stops>>
hvars == <<torn, late_ticks, since, late_call, tick0>>
fvars == <<running, q, fpc, look, expression, blink_req, backlight, displayed, fspc,
           late_frames>>
\* the ServoController's variables
kvars == <<ctl, wvars, avars, svars, hvars>>
vars == <<kvars, fvars>>

(***************************************************************************)
(* ServoController.__init__                                                *)
(***************************************************************************)
\* the controller as __init__ leaves it, given its limits argument and the
\* angles the driver reports
Construct(c) ==
    /\ limits = MergeLimits(c.limits) /\ servo = c.angle
    /\ current = [ch \in ChanSet |-> PyOr(servo[ch], limits[ch].center)]
    /\ target = current
    /\ delta = [ch \in ChanSet |-> 0]
    /\ steps_left = [ch \in ChanSet |-> 0]
    /\ lock = "free"
    /\ stop_evt = FALSE
    /\ wpc = "check" /\ wch = 1
    /\ apc = "idle" /\ ach = 1
    /\ targets = NoTargets /\ duration = 0 /\ steps = 0 /\ new_angle = 0 /\ cur = 0
    /\ ret = "none" /\ snapshot = None /\ moves = 0
    /\ spc = "idle" /\ stops = 0
    /\ torn = FALSE
    /\ late_ticks = 0
    /\ since = [ch \in ChanSet |-> [asked |-> None, need |-> 0, ticks |-> 0]]
    /\ late_call = FALSE
    /\ tick0 = None

\* RobotFace.__init__
FaceConstruct ==
    /\ running = TRUE
    /\ q = <<>>
    /\ fpc = "check"
    /\ look = <<0, 0>> /\ expression = "neutral" /\ blink_req = None
    /\ backlight = TRUE
    /\ displayed = None
    /\ fspc = "idle"
    /\ late_frames = 0

Init == FaceConstruct /\ \E c \in Constructions : Construct(c)

(***************************************************************************)
(* ServoController._worker                                                 *)
(***************************************************************************)
\* the loop condition never reading the stop event
WorkerCheckIgnoresStop ==
    /\ wpc = "check"
    /\ wpc' = "sleep"
    /\ UNCHANGED <<fvars, ctl, wch, avars, svars, hvars>>

\* while not self._stop_evt.is_set()
WorkerCheck ==
    /\ wpc = "check"
    /\ wpc' = IF stop_evt THEN "done" ELSE "sleep"
    /\ UNCHANGED <<fvars, ctl, wch, avars, svars, hvars>>

\* time.sleep(self.tick)
WorkerSleep ==
    /\ wpc = "sleep"
    /\ wpc' = "acquire"
    /\ UNCHANGED <<fvars, ctl, wch, avars, svars, hvars>>

\* with self._lock:
WorkerAcquire ==
    /\ wpc = "acquire"
    /\ lock = "free"
    /\ lock' = "worker"
    /\ wch' = 1
    /\ wpc' = "iter"
    /\ late_ticks' = IF stop_evt THEN Min(late_ticks + 1, 2) ELSE late_ticks
    /\ tick0' = Some([current |-> current, steps_left |-> steps_left, servo |-> servo])
    /\ UNCHANGED <<fvars, limits, servo, current, target, delta, steps_left, stop_evt, avars, svars,
                   torn, since, late_call>>

\* for ch in self.channels: if self._steps_left[ch] > 0; the lock is released
\* when the loop ends
WorkerIter ==
    /\ wpc = "iter"
    /\ IF wch > Len(channels)
       THEN /\ lock' = "free"
            /\ wpc' = "check"
            /\ wch' = wch
            /\ since' = [ch \in ChanSet |->
                            [since[ch] EXCEPT !.ticks = Min(@ + 1, since[ch].need)]]
            /\ tick0' = None
       ELSE /\ lock' = lock
            /\ since' = since
            /\ tick0' = tick0
            /\ IF steps_left[channels[wch]] > 0
               THEN wpc' = "add" /\ wch' = wch
               ELSE wpc' = "iter" /\ wch' = wch + 1
    /\ UNCHANGED <<fvars, limits, servo, current, target, delta, steps_left, stop_evt, avars, svars,
                   torn, late_ticks, late_call>>

\* self._current[ch] += self._delta[ch]
WorkerAdd ==
    /\ wpc = "add"
    /\ current' = [current EXCEPT ![channels[wch]] = FAdd(@, delta[channels[wch]])]
    /\ wpc' = "dec"
    /\ torn' = /\ torn \/ current'[channels[wch]] # current[channels[wch]]
               /\ \E j \in (wch + 1)..Len(channels) :
                     /\ steps_left[channels[j]] > 0
                     /\ FAdd(current[channels[j]], delta[channels[j]]) # current[channels[j]]
    /\ UNCHANGED <<fvars, limits, servo, target, delta, steps_left, lock, stop_evt, wch, avars, svars,
                   late_ticks, since, late_call, tick0>>

\* self._steps_left[ch] -= 1
WorkerDec ==
    /\ wpc = "dec"
    /\ steps_left' = [steps_left EXCEPT ![channels[wch]] = @ - 1]
    /\ wpc' = "write"
    /\ UNCHANGED <<fvars, limits, servo, current, target, delta, lock, stop_evt, wch, avars, svars, hvars>>

\* self.kit.servo[ch].angle = self._current[ch], the driver accepting the write
WorkerWrite ==
    /\ wpc = "write"
    /\ servo' = [servo EXCEPT ![channels[wch]] = Some(current[channels[wch]])]
    /\ wch' = wch + 1
    /\ wpc' = "iter"
    /\ UNCHANGED <<fvars, limits, current, target, delta, steps_left, lock, stop_evt, avars, svars, hvars>>

\* the driver raising with the lock left held
WorkerWriteFailsKeepsLock ==
    /\ wpc = "write"
    /\ wpc' = "crashed"
    /\ UNCHANGED <<fvars, ctl, wch, avars, svars, hvars>>

\* the same statement with the driver raising: nothing catches the exception,
\* so the with block releases the lock and the thread ends
WorkerWriteFails ==
    /\ wpc = "write"
    /\ lock' = "free"
    /\ wpc' = "crashed"
    /\ UNCHANGED <<fvars, limits, servo, current, target, delta, steps_left, stop_evt, wch, avars, svars,
                   hvars>>

Worker ==
    \/ WorkerCheck \/ WorkerSleep \/ WorkerAcquire \/ WorkerIter
    \/ WorkerAdd \/ WorkerDec \/ WorkerWrite \/ WorkerWriteFails

(***************************************************************************)
(* ServoController.move, center_all, get_angles (the application thread)   *)
(***************************************************************************)
\* if duration <= 0: duration = self.tick; steps = max(1, int(duration / self.tick))
StepsFor(d) ==
    LET dur == IF d <= 0 THEN tick ELSE d
    IN  Max(1, Trunc(FDiv(dur, tick)))

\* entering move(t, d): the step count is computed before the lock is taken
EnterMove(t, d) ==
    /\ targets' = t
    /\ duration' = d
    /\ steps' = StepsFor(d)
    /\ moves' = moves + 1
    /\ apc' = "m_acquire"
    /\ ret' = "none" /\ snapshot' = None
    /\ late_call' = (stops >= 1)
    /\ UNCHANGED <<fvars, ctl, wvars, ach, new_angle, cur, svars, torn, late_ticks, since, tick0>>

\* a call of move with one of the given mappings and durations
CallMoveOf(maps, durs) ==
    /\ apc = "idle"
    /\ moves < MaxMoves
    /\ \E t \in maps, d \in durs : EnterMove(t, d)

CallMove == CallMoveOf(TargetMaps, Durations)

\* self.move({ch: self.limits[ch].center for ch in self.channels}, duration)
CallCenterAll ==
    /\ apc = "idle"
    /\ moves < MaxMoves
    /\ \E d \in Durations : EnterMove([ch \in ChanSet |-> Some(limits[ch].center)], d)

\* move entering its loop without taking the lock
MoveAcquireNoLock ==
    /\ apc = "m_acquire"
    /\ ach' = 1
    /\ apc' = "m_iter"
    /\ UNCHANGED <<fvars, ctl, wvars, targets, duration, steps, new_angle, cur, ret, snapshot,
                   moves, svars, hvars>>

\* with self._lock:
MoveAcquire ==
    /\ apc = "m_acquire"
    /\ lock = "free"
    /\ lock' = "app"
    /\ ach' = 1
    /\ apc' = "m_iter"
    /\ UNCHANGED <<fvars, limits, servo, current, target, delta, steps_left, stop_evt, wvars,
                   targets, duration, steps, new_angle, cur, ret, snapshot, moves,
                   svars, hvars>>

\* new_angle is not None
Named(t, ch) == Get(t, ch) # None

\* move halting every channel it does not name
MoveIterStopsUnnamed ==
    /\ apc = "m_iter"
    /\ IF ach > Len(channels)
       THEN /\ lock' = "free"
            /\ apc' = "idle"
            /\ ret' = "ok"
            /\ ach' = ach
            /\ steps_left' = steps_left
       ELSE /\ lock' = lock
            /\ ret' = ret
            /\ IF Named(targets, channels[ach])
               THEN apc' = "m_clamp" /\ ach' = ach /\ steps_left' = steps_left
               ELSE /\ apc' = "m_iter" /\ ach' = ach + 1
                    /\ steps_left' = [steps_left EXCEPT ![channels[ach]] = 0]
    /\ late_call' = (late_call /\ ach <= Len(channels))
    /\ UNCHANGED <<fvars, limits, servo, current, target, delta, stop_evt, wvars,
                   targets, duration, steps, new_angle, cur, snapshot, moves,
                   svars, torn, late_ticks, since, tick0>>

\* for ch in self.channels: new_angle = targets.get(ch, None); if new_angle is
\* not None; when the loop ends the lock is released and move returns
MoveIter ==
    /\ apc = "m_iter"
    /\ IF ach > Len(channels)
       THEN /\ lock' = "free"
            /\ apc' = "idle"
            /\ ret' = "ok"
            /\ ach' = ach
       ELSE /\ lock' = lock
            /\ ret' = ret
            /\ IF Named(targets, channels[ach])
               THEN apc' = "m_clamp" /\ ach' = ach
               ELSE apc' = "m_iter" /\ ach' = ach + 1
    /\ late_call' = (late_call /\ ach <= Len(channels))
    /\ UNCHANGED <<fvars, limits, servo, current, target, delta, steps_left, stop_evt, wvars,
                   targets, duration, steps, new_angle, cur, snapshot, moves,
                   svars, torn, late_ticks, since, tick0>>

\* new_angle = self.limits[ch].clamp(float(new_angle)); cur = self._current[ch]
MoveClamp ==
    /\ apc = "m_clamp"
    /\ new_angle' = clamp(limits[channels[ach]], Val(Get(targets, channels[ach])))
    /\ cur' = current[channels[ach]]
    /\ apc' = "m_target"
    /\ UNCHANGED <<fvars, ctl, wvars, ach, targets, duration, steps, ret, snapshot, moves,
                   svars, hvars>>

\* move writing the new target to the driver itself
MoveTargetWritesDriver ==
    /\ apc = "m_target"
    /\ target' = [target EXCEPT ![channels[ach]] = new_angle]
    /\ servo' = [servo EXCEPT ![channels[ach]] = Some(new_angle)]
    /\ apc' = "m_delta"
    /\ UNCHANGED <<fvars, limits, current, delta, steps_left, lock, stop_evt, wvars,
                   ach, targets, duration, steps, new_angle, cur, ret, snapshot, moves,
                   svars, hvars>>

\* self._target[ch] = new_angle
MoveTarget ==
    /\ apc = "m_target"
    /\ target' = [target EXCEPT ![channels[ach]] = new_angle]
    /\ apc' = "m_delta"
    /\ UNCHANGED <<fvars, limits, servo, current, delta, steps_left, lock, stop_evt, wvars,
                   ach, targets, duration, steps, new_angle, cur, ret, snapshot, moves,
                   svars, hvars>>

\* self._delta[ch] = (new_angle - cur) / steps
MoveDelta ==
    /\ apc = "m_delta"
    /\ delta' = [delta EXCEPT ![channels[ach]] = FDivInt(FSub(new_angle, cur), steps)]
    /\ apc' = "m_steps"
    /\ UNCHANGED <<fvars, limits, servo, current, target, steps_left, lock, stop_evt, wvars,
                   ach, targets, duration, steps, new_angle, cur, ret, snapshot, moves,
                   svars, hvars>>

\* History only: ceil(d / tick), and one tick for d <= 0, the ticks a caller
\* waits for a move of duration d to arrive
TicksFor(d) == IF d <= 0 THEN 1 ELSE (d + tick - 1) \div tick

\* self._steps_left[ch] = steps
MoveSteps ==
    /\ apc = "m_steps"
    /\ steps_left' = [steps_left EXCEPT ![channels[ach]] = steps]
    /\ ach' = ach + 1
    /\ apc' = "m_iter"
    /\ since' = [since EXCEPT ![channels[ach]] =
                    [asked |-> Get(targets, channels[ach]), need |-> TicksFor(duration),
                     ticks |-> 0]]
    /\ UNCHANGED <<fvars, limits, servo, current, target, delta, lock, stop_evt, wvars,
                   targets, duration, steps, new_angle, cur, ret, snapshot, moves,
                   svars, torn, late_ticks, late_call, tick0>>

\* get_angles is called
CallGetAngles ==
    /\ apc = "idle"
    /\ apc' = "g_acquire"
    /\ targets' = NoTargets /\ duration' = 0 /\ steps' = 0
    /\ ret' = "none" /\ snapshot' = None
    /\ late_call' = (stops >= 1)
    /\ UNCHANGED <<fvars, ctl, wvars, ach, new_angle, cur, moves, svars, torn, late_ticks, since, tick0>>

\* with self._lock:
GetAcquire ==
    /\ apc = "g_acquire"
    /\ lock = "free"
    /\ lock' = "app"
    /\ apc' = "g_copy"
    /\ UNCHANGED <<fvars, limits, servo, current, target, delta, steps_left, stop_evt, wvars,
                   ach, targets, duration, steps, new_angle, cur, ret, snapshot, moves,
                   svars, hvars>>

\* return dict(self._current), leaving the with block
GetCopy ==
    /\ apc = "g_copy"
    /\ snapshot' = Some(current)
    /\ lock' = "free"
    /\ ret' = "ok"
    /\ apc' = "idle"
    /\ late_call' = FALSE
    /\ UNCHANGED <<fvars, limits, servo, current, target, delta, steps_left, stop_evt, wvars,
                   ach, targets, duration, steps, new_angle, cur, moves, svars,
                   torn, late_ticks, since, tick0>>

\* the steps inside move and get_angles
InCall ==
    \/ MoveAcquire \/ MoveIter \/ MoveClamp \/ MoveTarget \/ MoveDelta \/ MoveSteps
    \/ GetAcquire \/ GetCopy

App == CallMove \/ CallCenterAll \/ CallGetAngles \/ InCall

(***************************************************************************)
(* ServoController.stop (the thread that shuts the controller down)        *)
(***************************************************************************)
\* self._stop_evt.set()
StopSet ==
    /\ spc = "idle"
    /\ stops < MaxStops
    /\ stop_evt' = TRUE
    /\ spc' = "join"
    /\ UNCHANGED <<fvars, limits, servo, current, target, delta, steps_left, lock,
                   wvars, avars, stops, hvars>>

WorkerEnded == wpc \in {"done", "crashed"}

\* stop returning without waiting for the worker
StopJoinNoWait ==
    /\ spc = "join"
    /\ spc' = "idle"
    /\ stops' = stops + 1
    /\ UNCHANGED <<fvars, ctl, wvars, avars, hvars>>

\* self._thread.join(): returns once the worker thread has ended
StopJoin ==
    /\ spc = "join"
    /\ WorkerEnded
    /\ spc' = "idle"
    /\ stops' = stops + 1
    /\ UNCHANGED <<fvars, ctl, wvars, avars, hvars>>

Stopper == StopSet \/ StopJoin

Next == Worker \/ App \/ Stopper

Spec == Init /\ [][Next]_vars

(***************************************************************************)
(* Positions the properties speak of                                       *)
(***************************************************************************)
\* the worker is inside the body of a tick (it holds the lock)
InTick == wpc \in {"iter", "add", "dec", "write"}
\* the worker is at channel ch of a tick
TickAt(ch) == InTick /\ wch <= Len(channels) /\ channels[wch] = ch
\* move is between its first and its last write of channel ch's trajectory
HalfInstalled(ch) == apc \in {"m_delta", "m_steps"} /\ channels[ach] = ch
\* the application thread takes a step of move
MoveStep ==
    /\ apc \in {"m_acquire", "m_iter", "m_clamp", "m_target", "m_delta", "m_steps"}
    /\ <<apc, ach>> # <<apc', ach'>>
\* get_angles returns
GetReturns == apc = "g_copy" /\ apc' = "idle"
\* the worker writes to the driver, or tries to
WriteStep == wpc = "write" /\ wpc' # "write"
WithinLimits(ch, a) == limits[ch].min_angle <= a /\ a <= limits[ch].max_angle
HasUnconfigured(t) == \E k \in DOMAIN t : k \notin ChanSet

(***************************************************************************)
(* Properties                                                              *)
(***************************************************************************)
\* C1: in every reachable state, from construction on, each configured
\* channel's current angle lies within that channel's [min_angle, max_angle].
C1_CurrentWithinLimits == \A ch \in ChanSet : WithinLimits(ch, current[ch])

\* C2: whenever the lock is free (no tick and no move is part-way through),
\* steps_left = 0 implies current = target, for every configured channel.
C2_IdleAtTarget ==
    lock = "free" =>
        \A ch \in ChanSet : steps_left[ch] = 0 => current[ch] = target[ch]

\* C3: once ceil(d / tick) ticks (one tick for d <= 0) have run since the last
\* move naming ch, with angle a and duration d, current[ch] is exactly clamp(a)
\* and steps_left[ch] is 0.
C3_ArrivesExactly ==
    \A ch \in ChanSet :
        (since[ch].asked # None /\ since[ch].ticks >= since[ch].need)
            => /\ current[ch] = clamp(limits[ch], Val(since[ch].asked))
               /\ steps_left[ch] = 0

\* C4: a move whose targets hold an unconfigured key never writes a trajectory
\* and never returns normally.
C4_UnconfiguredRejected ==
    HasUnconfigured(targets)
        => /\ apc \notin {"m_target", "m_delta", "m_steps"}
           /\ ~(apc = "idle" /\ ret = "ok")

\* C5: no step of move changes current, target, delta or steps_left of a
\* configured channel that its targets leave out or map to None.
C5_UnnamedUntouched ==
    [][MoveStep =>
        \A ch \in ChanSet :
            ~Named(targets, ch) =>
                /\ current'[ch] = current[ch]
                /\ target'[ch] = target[ch]
                /\ delta'[ch] = delta[ch]
                /\ steps_left'[ch] = steps_left[ch]]_vars

\* C5 witness: move is writing channel 1's trajectory while channel 0, mapped
\* to None in the same call, is in flight.
C5_Witness ==
    /\ apc = "m_target" /\ channels[ach] = 1
    /\ 0 \in DOMAIN targets /\ targets[0] = None
    /\ steps_left[0] > 0 /\ steps_left[0] < steps

\* C6: the tick is never at a channel whose trajectory move has half
\* replaced, and the current that move read for the new delta is the
\* channel's current at the moment target and delta are written.
C6_AtomicReplacement ==
    /\ \A ch \in ChanSet : ~(TickAt(ch) /\ HalfInstalled(ch))
    /\ apc \in {"m_target", "m_delta"} => cur = current[channels[ach]]

\* C6 witness: a tick advances channel 1 along a trajectory that the second
\* move installed while the first move's motion was still in flight.
C6_Witness ==
    /\ wpc = "add" /\ channels[wch] = 1
    /\ moves = 2 /\ apc = "idle"
    /\ steps_left[1] = since[1].need
    /\ current[1] \notin {limits[1].center, limits[1].min_angle, limits[1].max_angle}

\* C7: get_angles never returns a mapping holding the post-tick current of one
\* channel beside the pre-tick current of another channel of the same tick.
C7_SnapshotAtTickBoundary == [][GetReturns => ~torn]_vars

\* C8: once a call to stop has returned the worker has ended and never takes
\* another step (so it writes nothing), and a later call to stop changes
\* nothing but the caller's own position.
C8_NoWriteAfterStop ==
    /\ [](stops >= 1 => WorkerEnded)
    /\ [][stops >= 1 => (~WriteStep /\ wpc' = wpc /\ servo' = servo)]_vars
    /\ [][(stops >= 1 /\ spc' # spc) => UNCHANGED <<ctl, wvars, avars>>]_vars

\* C8 witness: stop has returned twice, with a trajectory abandoned in flight
\* and a move issued after the first return.
C8_Witness ==
    /\ stops = 2
    /\ wpc = "done"
    /\ \E ch \in ChanSet : steps_left[ch] > 0 /\ since[ch].ticks = 0
    /\ apc = "idle" /\ ret = "ok"

\* The specification stop's termination is checked under.  Whether stop
\* returns does not depend on the angles, so it explores one construction and
\* one move, issued again and again beside get_angles.  Its fairness is the
\* scheduling the claim rests on: the worker thread keeps running and gets the
\* lock when it is free again and again, a thread inside the lock keeps
\* running, and a join whose thread has ended returns.
FairInit == Init /\ servo = NoneReported
CallOneMove == CallMoveOf({(0 :> None) @@ (1 :> Some(Float(200)))}, {Dec(6, 100)})
FairNext == Worker \/ CallOneMove \/ CallGetAngles \/ InCall \/ Stopper
FairSpec ==
    /\ FairInit /\ [][FairNext]_vars
    /\ WF_vars(WorkerCheck \/ WorkerSleep \/ WorkerIter \/ WorkerAdd \/ WorkerDec
                  \/ WorkerWrite \/ WorkerWriteFails)
    /\ SF_vars(WorkerAcquire)
    /\ WF_vars(MoveIter \/ MoveClamp \/ MoveTarget \/ MoveDelta \/ MoveSteps \/ GetCopy)
    /\ WF_vars(StopJoin)

\* C9: after stop_evt is set the worker begins at most one further tick and
\* ends, and a stop waiting in join returns.
C9_StopTerminates ==
    /\ [](late_ticks <= 1)
    /\ stop_evt ~> WorkerEnded
    /\ (spc = "join") ~> (spc = "idle")

\* C9 witness: stop has returned after the worker ran one more tick to its end,
\* with the application thread in a call.
C9_Witness ==
    /\ stops = 1 /\ wpc = "done" /\ late_ticks = 1
    /\ apc \in {"m_acquire", "g_acquire"}

\* C10: a failing driver write never ends the tick loop.
C10_WriteFailureNotFatal == wpc # "crashed"

(***************************************************************************)
(* The controller over a wider range of the arguments that decide limits,  *)
(* clamping and step counts: constructions given a limits argument, targets *)
(* below, inside and above the limits, non-positive and fractional-tick     *)
(* durations.  get_angles, which reads none of these, is left out.          *)
(***************************************************************************)
\* limits arguments: none, one whose min_angle exceeds its max_angle, one
\* whose center lies above its max_angle
WideConstructions ==
    { [limits |-> NoOverride, angle |-> NoneReported],
      [limits |-> (0 :> Limits(80, 30, 55)), angle |-> NoneReported],
      [limits |-> (1 :> Limits(60, 120, 150)), angle |-> NoneReported] }
WideMaps ==
    { (0 :> Some(Float(20))) @@ (1 :> Some(Float(200))),
      (0 :> Some(Float(60))) @@ (1 :> Some(Float(60))) }
WideDurations == {Float(-1), Dec(3, 100), Dec(6, 100)}

WideInit == FaceConstruct /\ \E c \in WideConstructions : Construct(c)
CallWideMove == CallMoveOf(WideMaps, WideDurations)
WideNext ==
    \/ Worker \/ CallWideMove
    \/ MoveAcquire \/ MoveIter \/ MoveClamp \/ MoveTarget \/ MoveDelta \/ MoveSteps
    \/ Stopper
WideSpec == WideInit /\ [][WideNext]_vars

\* C11: a move, center_all or get_angles call made after a call of stop has
\* returned writes no trajectory and does not return normally.
C11_RejectedAfterStop ==
    [][late_call =>
        /\ <<target', delta', steps_left'>> = <<target, delta, steps_left>>
        /\ ~(apc' = "idle" /\ ret' = "ok")]_vars

\* round(x): the integer nearest to the float x, ties to the even one
Round(a) == IF a < 0 THEN -NearestEven(-a, Unit) ELSE NearestEven(a, Unit)
\* the application thread is inside move
InMove == apc \in {"m_acquire", "m_iter", "m_clamp", "m_target", "m_delta", "m_steps"}

\* C12: the step count of a move is max(1, round(duration / tick)) when
\* duration > 0 and 1 when duration <= 0.
C12_StepsRounded ==
    InMove => steps = IF duration <= 0 THEN 1 ELSE Max(1, Round(FDiv(duration, tick)))

\* C13: what get_angles returns for a channel is the value the driver holds
\* for it: every recorded current has been sent, from construction on.
C13_ReturnedWasSent ==
    [][GetReturns => \A ch \in ChanSet : servo[ch] = Some(current[ch])]_vars

\* C14: no caller waits for the lock while the tick holds it at a driver write.
C14_NoWaitOnDriverWrite ==
    ~(apc \in {"m_acquire", "g_acquire"} /\ lock = "worker" /\ wpc = "write")

\* the mapping center_all passes to move
CenterTargets == [ch \in ChanSet |-> Some(limits[ch].center)]

\* C15: center_all hands move every configured channel's center, move installs
\* that center as the target, and once the steps of a center_all have been
\* ticked with no later move every configured channel's current is its center.
C15_CenterAllArrives ==
    /\ (targets = CenterTargets /\ apc \in {"m_delta", "m_steps"})
            => target[channels[ach]] = limits[channels[ach]].center
    /\ (/\ targets = CenterTargets /\ apc = "idle" /\ ret = "ok"
        /\ \A ch \in ChanSet : since[ch].ticks >= since[ch].need)
            => \A ch \in ChanSet : current[ch] = limits[ch].center

\* the application thread takes a step
AppStep == apc' # apc \/ ach' # ach

\* C16: a step of move, center_all or get_angles never writes to the driver
\* and changes nothing but target, delta and steps_left (get_angles not even
\* those); the driver changes only by the tick loop's write.
C16_NoWriteOutsideTick ==
    /\ [][AppStep => /\ UNCHANGED <<servo, current, limits, stop_evt>>
                      /\ ~InMove => UNCHANGED <<target, delta, steps_left>>]_vars
    /\ [][servo' # servo => (WriteStep /\ wpc' = "iter")]_vars

\* C16 witness: move has returned with a trajectory installed towards a target
\* the driver has not been sent, no tick having run since.
C16_Witness ==
    /\ apc = "idle" /\ ret = "ok"
    /\ \E ch \in ChanSet :
          /\ Named(targets, ch) /\ steps_left[ch] = steps /\ since[ch].ticks = 0
          /\ target[ch] # current[ch]
          /\ servo[ch] # Some(target[ch])

\* C17: clamp's result lies within the limits, is the angle itself when that
\* lies within them, and is otherwise the bound on the angle's side.
C17_ClampWithinLimits ==
    apc = "m_target" =>
        LET lim == limits[channels[ach]]
            a == Val(Get(targets, channels[ach]))
        IN  /\ lim.min_angle <= new_angle /\ new_angle <= lim.max_angle
            /\ (lim.min_angle <= a /\ a <= lim.max_angle) => new_angle = a
            /\ a < lim.min_angle => new_angle = lim.min_angle
            /\ a > lim.max_angle => new_angle = lim.max_angle

\* C18: every Limits the controller holds has min_angle <= center <= max_angle.
C18_LimitsOrdered ==
    \A ch \in DOMAIN limits :
        limits[ch].min_angle <= limits[ch].center /\ limits[ch].center <= limits[ch].max_angle

\* the controller is as __init__ left it
AtConstruction ==
    /\ moves = 0 /\ apc = "idle" /\ ret = "none"
    /\ wpc = "check" /\ spc = "idle" /\ stops = 0

\* C19: as constructed every channel is idle (steps_left 0, delta 0, target =
\* current), with current the angle the driver reports when it reports one (0
\* included) and the channel's center when it reports none.
C19_StartsAtReported ==
    AtConstruction =>
        \A ch \in ChanSet :
            /\ steps_left[ch] = 0 /\ delta[ch] = 0 /\ target[ch] = current[ch]
            /\ current[ch] = IF servo[ch] # None THEN Val(servo[ch]) ELSE limits[ch].center

\* C20: when a tick ends, each channel whose steps_left was > 0 when the tick
\* began has had delta added to its current once, its steps_left lowered by
\* one and the new current written to the driver; every other channel has its
\* current and the driver's angle as the tick found them.
C20_TickAdvancesInMotion ==
    [][(InTick /\ ~InTick') =>
        \A ch \in ChanSet :
            IF Val(tick0).steps_left[ch] > 0
            THEN /\ current'[ch] = FAdd(Val(tick0).current[ch], delta[ch])
                 /\ steps_left'[ch] = Val(tick0).steps_left[ch] - 1
                 /\ servo'[ch] = Some(current'[ch])
            ELSE /\ current'[ch] = Val(tick0).current[ch]
                 /\ steps_left'[ch] = 0
                 /\ servo'[ch] = Val(tick0).servo[ch]]_vars

\* C21: between the steps of moves and ticks (the lock is free), every
\* channel's steps_left is >= 0 and current + steps_left * delta is exactly
\* target.
C21_RemainingMotionExact ==
    lock = "free" =>
        \A ch \in ChanSet :
            /\ steps_left[ch] >= 0
            /\ current[ch] + steps_left[ch] * delta[ch] = target[ch]

\* the configured channels the last call of move named
NamedChannels == {ch \in ChanSet : Named(targets, ch)}

\* C22: no tick is in progress while move is part-way through the channels it
\* names, and once move has returned the channels it named have, between
\* ticks, the same steps_left, so that they reach 0 in the same tick.
C22_MoveTakesEffectAtOnce ==
    /\ InTick => apc \notin {"m_iter", "m_clamp", "m_target", "m_delta", "m_steps"}
    /\ (apc = "idle" /\ ret = "ok" /\ ~InTick)
            => \A c1, c2 \in NamedChannels : steps_left[c1] = steps_left[c2]

\* The specification the lock's liveness is checked under: FairSpec's steps
\* and fairness, and a caller waiting for the lock gets it when it is free
\* again and again.
LockFairSpec ==
    /\ FairInit /\ [][FairNext]_vars
    /\ WF_vars(WorkerCheck \/ WorkerSleep \/ WorkerIter \/ WorkerAdd \/ WorkerDec
                  \/ WorkerWrite \/ WorkerWriteFails)
    /\ SF_vars(WorkerAcquire)
    /\ SF_vars(MoveAcquire) /\ SF_vars(GetAcquire)
    /\ WF_vars(MoveIter \/ MoveClamp \/ MoveTarget \/ MoveDelta \/ MoveSteps \/ GetCopy)
    /\ WF_vars(StopJoin)

\* C23: the worker holds the lock only inside the body of a tick (not while
\* sleeping, not once it has ended, a raising write included), a held lock is
\* released, every move, center_all and get_angles call returns, and stop
\* never touches the lock and returns from its join.
C23_LockNeverHeldForever ==
    /\ [](lock = "worker" => InTick)
    /\ (lock # "free") ~> (lock = "free")
    /\ (apc # "idle") ~> (apc = "idle" /\ ret = "ok")
    /\ [][spc' # spc => lock' = lock]_vars
    /\ (spc = "join") ~> (spc = "idle")

\* C23 witness: a caller holds the lock after a raising write has ended the
\* worker, while stop waits in join.
C23_Witness == wpc = "crashed" /\ lock = "app" /\ spc = "join"

(***************************************************************************)
(* RobotFace of src/face.py: a render thread running _loop, callers that   *)
(* queue commands (look, set_expression, blink) and a caller of stop.  An  *)
(* image is modelled by the fields the commands set; what the clock alone  *)
(* changes in it (a natural blink, a blink running out) is a choice.       *)
(***************************************************************************)
CMD_LOOK == 0
CMD_EXPR == 1
CMD_BLINK == 2

\* the commands callers queue
Looks == {<<1, 0>>}
Expressions == {"happy"}
Eyes == {"left"}
MaxQueue == 2

\* what the commands leave alone
PutFrame ==
    UNCHANGED <<kvars, running, fpc, look, expression, blink_req, backlight, displayed,
                fspc, late_frames>>

\* RobotFace.look: self.q.put((CMD_LOOK, (h, v))); the queue is unbounded,
\* MaxQueue caps the model
FaceLook ==
    /\ Len(q) < MaxQueue
    /\ \E d \in Looks : q' = Append(q, <<CMD_LOOK, d>>)
    /\ PutFrame

\* RobotFace.set_expression: self.q.put((CMD_EXPR, e))
FaceSetExpression ==
    /\ Len(q) < MaxQueue
    /\ \E e \in Expressions : q' = Append(q, <<CMD_EXPR, e>>)
    /\ PutFrame

\* RobotFace.blink: self.q.put((CMD_BLINK, eye))
FaceBlink ==
    /\ Len(q) < MaxQueue
    /\ \E eye \in Eyes : q' = Append(q, <<CMD_BLINK, eye>>)
    /\ PutFrame

\* RobotFace.stop: self._running = False
FaceStopFlag ==
    /\ fspc = "idle"
    /\ running' = FALSE
    /\ fspc' = "backlight"
    /\ UNCHANGED <<kvars, q, fpc, look, expression, blink_req, backlight, displayed,
                   late_frames>>

\* RobotFace.stop: _backlight.value = False, and stop returns
FaceStopBacklight ==
    /\ fspc = "backlight"
    /\ backlight' = FALSE
    /\ fspc' = "idle"
    /\ UNCHANGED <<kvars, running, q, fpc, look, expression, blink_req, displayed,
                   late_frames>>

\* the loop condition never reading the flag
FaceLoopCheckIgnoresRunning ==
    /\ fpc = "check"
    /\ fpc' = "drain"
    /\ UNCHANGED <<kvars, running, q, look, expression, blink_req, backlight, displayed,
                   fspc, late_frames>>

\* while self._running:
FaceLoopCheck ==
    /\ fpc = "check"
    /\ fpc' = IF running THEN "drain" ELSE "done"
    /\ UNCHANGED <<kvars, running, q, look, expression, blink_req, backlight, displayed,
                   fspc, late_frames>>

\* while not self.q.empty():
FaceDrain ==
    /\ fpc = "drain"
    /\ fpc' = IF q # <<>> THEN "get" ELSE "show"
    /\ UNCHANGED <<kvars, running, q, look, expression, blink_req, backlight, displayed,
                   fspc, late_frames>>

\* cmd, data = self.q.get(), which waits while the queue is empty, and the
\* branch on cmd
FaceGet ==
    /\ fpc = "get"
    /\ q # <<>>
    /\ q' = Tail(q)
    /\ look' = IF Head(q)[1] = CMD_LOOK THEN Head(q)[2] ELSE look
    /\ expression' = IF Head(q)[1] = CMD_EXPR THEN Head(q)[2] ELSE expression
    /\ blink_req' = IF Head(q)[1] = CMD_BLINK THEN Some(Head(q)[2]) ELSE blink_req
    /\ fpc' = "drain"
    /\ UNCHANGED <<kvars, running, backlight, displayed, fspc, late_frames>>

\* the frame: the blink request is kept, replaced by a natural blink or
\* dropped when it has run 0.3 s; the image is drawn and pushed with
\* self.display.image(img.rotate(ROTATE_DEG))
FaceShow ==
    /\ fpc = "show"
    /\ \E b \in {blink_req, Some("both"), None} :
          /\ blink_req' = b
          /\ displayed' = Some([look |-> look, expression |-> expression, blink |-> b])
    /\ late_frames' = IF running THEN late_frames ELSE Min(late_frames + 1, 2)
    /\ fpc' = "sleep"
    /\ UNCHANGED <<kvars, running, q, look, expression, backlight, fspc>>

\* the display raising: nothing in _loop catches it and the thread ends
FaceShowFails ==
    /\ fpc = "show"
    /\ fpc' = "crashed"
    /\ UNCHANGED <<kvars, running, q, look, expression, blink_req, backlight, displayed,
                   fspc, late_frames>>

\* time.sleep(self.dt)
FaceSleep ==
    /\ fpc = "sleep"
    /\ fpc' = "check"
    /\ UNCHANGED <<kvars, running, q, look, expression, blink_req, backlight, displayed,
                   fspc, late_frames>>

FaceInit == FaceConstruct /\ Construct([limits |-> NoOverride, angle |-> NoneReported])
FaceNext ==
    \/ FaceLook \/ FaceSetExpression \/ FaceBlink
    \/ FaceStopFlag \/ FaceStopBacklight
    \/ FaceLoopCheck \/ FaceDrain \/ FaceGet \/ FaceShow \/ FaceShowFails \/ FaceSleep
FaceSpec == FaceInit /\ [][FaceNext]_vars

\* C24: once _running is False the render loop ends at its next check of the
\* loop condition and pushes at most one more image; stop's steps are always
\* enabled (it waits for nothing, the loop included); and the loop reaches
\* q.get() only with a command in the queue, so the get never waits.
C24_FaceStopEndsLoop ==
    /\ [][(~running /\ fpc = "check" /\ fpc' # fpc) => fpc' = "done"]_vars
    /\ [](late_frames <= 1)
    /\ [](fspc = "idle" => ENABLED FaceStopFlag)
    /\ [](fspc = "backlight" => ENABLED FaceStopBacklight)
    /\ [](fpc = "get" => q # <<>>)

\* C24 witness: stop has returned and the loop has ended after pushing the
\* one image it was working on, leaving a queued command unread.
C24_Witness ==
    /\ ~running /\ ~backlight /\ fspc = "idle"
    /\ fpc = "done" /\ late_frames = 1
    /\ q # <<>>

====
